---- MODULE Spec2Model ----
\* A model of libdevcore/Log.cpp: the thread-name registry, the sink filter,
\* the record formatter and the sink pipeline installed by setupLogging.
EXTENDS Integers, Sequences, FiniteSets, TLC

VARIABLES
    \* ---- build configuration (preprocessor branches of Log.cpp)
    asyncBuild,        \* NDEBUG defined: log_sink is asynchronous_sink
    platform,          \* "glibc", "apple" or "other" (#if in get/setThreadName)
    \* ---- thread-name registry
    tlsName,           \* g_logThreadName.m_name, per thread: <<>> is a null pointer
    osName,            \* the name the OS keeps for each thread (pthread_*name_np)
    osInitial,         \* history: the OS name each thread started with
    lastSet,           \* history: <<n>> the last name the thread passed to setThreadName
    got,               \* <<n>> the result of the thread's last getThreadName since its last set
    nameOps,           \* number of registry calls made so far
    \* ---- filter and formatter applied to drawn inputs
    fOptions, fChannel, fSev1, fSev2, fRes1, fRes2, fApplied,
    fmtRec, fmtOut, fmtCount,
    \* ---- logging core
    sinks,             \* the sinks added to the core, in order of add_sink; each
                       \* holds its queue and the records it has put on std::cout
    setupLog,          \* history: the options of every setupLogging call
    g_vmTraceEnabled,
    handlerInstalled,  \* the core's exception handler has been set
    records,           \* history: every record submitted, in submission order
    pc, cur, targets,  \* per thread: position in the emission call, the record
                       \* being emitted and the accepting sinks still to be fed
    cerrLog,           \* records reported on std::cerr by the exception handler
    escaped,           \* per thread: an exception left the emission call
    halted,            \* std::terminate was called
    exited             \* the process has exited

nameVars == <<platform, tlsName, osName, osInitial, lastSet, got, nameOps>>
filterVars == <<fOptions, fChannel, fSev1, fSev2, fRes1, fRes2, fApplied>>
formatVars == <<fmtRec, fmtOut, fmtCount>>
coreVars == <<asyncBuild, sinks, setupLog, g_vmTraceEnabled, handlerInstalled,
              records, pc, cur, targets, cerrLog, escaped,
              halted, exited>>
vars == <<nameVars, filterVars, formatVars, coreVars>>

\* ------------------------------------------------------------------ bounds
NumThreads == 2
MaxNameOps == 4
MaxCalls == 4
MaxFormats == 2

Threads == 1..NumThreads
MainThread == 1

\* ------------------------------------------------------------- Log.h names
VerbositySilent == -1
VerbosityError == 0
VerbosityWarning == 1
VerbosityInfo == 2
VerbosityDebug == 3
VerbosityTrace == 4

EthReset == "[0m"
EthNavy == "[navy]"
EthViolet == "[violet]"

Channels == {"net", "rpc"}
Severities == (VerbositySilent - 1)..(VerbosityTrace + 1)
Verbosities == VerbositySilent..VerbosityTrace

\* LoggingOptions: channel lists are vectors in the code; only membership and
\* emptiness are read, so they are modelled as sets.
Options == [verbosity : Verbosities, includeChannels : SUBSET Channels,
            excludeChannels : SUBSET Channels, vmTrace : BOOLEAN]

contains(container, value) == value \in container

\* ------------------------------------------------------ thread-name registry
Platforms == {"glibc", "apple", "other"}
LongName == "a-thread-name-longer-than-fifteen"
HugeName == "a-thread-name-that-is-longer-than-the-sixty-three-bytes-xnu-allows-for-one"
Names == {"net", "miner", LongName, HugeName}
OsDefaultNames == {"aleth", ""}
Unknown == "<unknown>"

\* pthread_setname_np keeps the old name and returns an error when the name
\* does not fit: 16 bytes with the terminator on glibc, 64 on Apple.
OsNameLimit(p) == IF p = "glibc" THEN 15 ELSE 63

\* ThreadLocalLogName g_logThreadName("main"): the constructor runs on the
\* thread that performs static initialisation and resets its own slot only.
g_logThreadNameInit == [t \in Threads |-> IF t = MainThread THEN <<"main">> ELSE <<>>]

getThreadName(t) ==
    IF platform \in {"glibc", "apple"} THEN osName[t]
    ELSE IF tlsName[t] # <<>> THEN tlsName[t][1] ELSE Unknown

SetThreadNameShared(t, n) ==
    IF platform \in {"glibc", "apple"}
    THEN /\ osName' = [u \in Threads |-> IF Len(n) <= OsNameLimit(platform) THEN n ELSE osName[u]]
         /\ UNCHANGED tlsName
    ELSE /\ tlsName' = [u \in Threads |-> <<n>>]
         /\ UNCHANGED osName

SetThreadNameEffect(t, n) ==
    IF platform \in {"glibc", "apple"}
    THEN /\ osName' = [osName EXCEPT ![t] = IF Len(n) <= OsNameLimit(platform) THEN n ELSE @]
         /\ UNCHANGED tlsName
    ELSE /\ tlsName' = [tlsName EXCEPT ![t] = <<n>>]
         /\ UNCHANGED osName

setThreadName(t, n) ==
    /\ nameOps < MaxNameOps
    /\ SetThreadNameEffect(t, n)
    /\ lastSet' = [lastSet EXCEPT ![t] = <<n>>]
    /\ got' = [got EXCEPT ![t] = <<>>]
    /\ nameOps' = nameOps + 1
    /\ UNCHANGED <<platform, osInitial, filterVars, formatVars, coreVars>>

GetThreadNameCall(t) ==
    /\ nameOps < MaxNameOps
    /\ got' = [got EXCEPT ![t] = <<getThreadName(t)>>]
    /\ nameOps' = nameOps + 1
    /\ UNCHANGED <<platform, tlsName, osName, osInitial, lastSet, filterVars, formatVars, coreVars>>

\* ------------------------------------------------------------- sink filter
FilterStrict(o, sev, ch) ==
    IF sev >= o.verbosity THEN FALSE
    ELSE (o.includeChannels = {} \/ contains(o.includeChannels, ch))
         /\ ~contains(o.excludeChannels, ch)

FilterIncludeWins(o, sev, ch) ==
    IF sev > o.verbosity THEN FALSE
    ELSE IF o.includeChannels = {} THEN ~contains(o.excludeChannels, ch)
         ELSE contains(o.includeChannels, ch)

FilterExact(o, sev, ch) ==
    IF sev # o.verbosity THEN FALSE
    ELSE (o.includeChannels = {} \/ contains(o.includeChannels, ch))
         /\ ~contains(o.excludeChannels, ch)

Filter(o, sev, ch) ==
    IF sev > o.verbosity THEN FALSE
    ELSE (o.includeChannels = {} \/ contains(o.includeChannels, ch))
         /\ ~contains(o.excludeChannels, ch)

ApplyFilter(ch, s1, s2) ==
    /\ s1 < s2
    /\ fChannel' = ch
    /\ fSev1' = s1
    /\ fSev2' = s2
    /\ fRes1' = Filter(fOptions, s1, ch)
    /\ fRes2' = Filter(fOptions, s2, ch)
    /\ fApplied' = TRUE
    /\ UNCHANGED <<fOptions, nameVars, formatVars, coreVars>>

\* ---------------------------------------------------------------- formatter
NoAttr == <<>>
Attr(v) == <<v>>
has_attr(a) == a # NoAttr

RECURSIVE PadRight(_, _)
PadRight(s, w) == IF Len(s) >= w THEN s ELSE PadRight(s \o " ", w)

TwoDigits(n) == IF n < 10 THEN "0" \o ToString(n) ELSE ToString(n)

\* format_date_time(timestamp, "%m-%d %H:%M:%S")
format_date_time(ts) ==
    TwoDigits(ts.month) \o "-" \o TwoDigits(ts.day) \o " " \o TwoDigits(ts.hour)
        \o ":" \o TwoDigits(ts.minute) \o ":" \o TwoDigits(ts.second)

g_timestampFormatter(rec) == EthViolet \o format_date_time(rec.timestamp) \o EthReset \o " "

verbosityToString(v) ==
    CASE v = VerbosityError -> "ERROR"
      [] v = VerbosityWarning -> "WARN"
      [] v = VerbosityInfo -> "INFO"
      [] v = VerbosityDebug -> "DEBUG"
      [] v = VerbosityTrace -> "TRACE"
      [] OTHER -> ""

Segment(f, t) == [field |-> f, text |-> t]

formatterNonEmpty(rec) ==
    << Segment("severity", PadRight(verbosityToString(rec.severity), 5) \o " "),
       Segment("timestamp", g_timestampFormatter(rec)),
       Segment("threadName", EthNavy \o PadRight(rec.threadName, 4) \o EthReset \o " "),
       Segment("channel", PadRight(rec.channel, 6) \o " ") >>
    \o (IF has_attr(rec.prefix) /\ rec.prefix # Attr("")
        THEN << Segment("prefix", EthNavy \o rec.prefix[1] \o EthReset \o " ") >>
        ELSE << >>)
    \o << Segment("message", rec.message) >>
    \o (IF has_attr(rec.suffix) /\ rec.suffix # Attr("")
        THEN << Segment("suffix", " " \o EthNavy \o rec.suffix[1] \o EthReset) >>
        ELSE << >>)

formatter(rec) ==
    << Segment("severity", PadRight(verbosityToString(rec.severity), 5) \o " "),
       Segment("timestamp", g_timestampFormatter(rec)),
       Segment("threadName", EthNavy \o PadRight(rec.threadName, 4) \o EthReset \o " "),
       Segment("channel", PadRight(rec.channel, 6) \o " ") >>
    \o (IF has_attr(rec.prefix)
        THEN << Segment("prefix", EthNavy \o rec.prefix[1] \o EthReset \o " ") >>
        ELSE << >>)
    \o << Segment("message", rec.message) >>
    \o (IF has_attr(rec.suffix)
        THEN << Segment("suffix", " " \o EthNavy \o rec.suffix[1] \o EthReset) >>
        ELSE << >>)

RECURSIVE Render(_)
Render(segs) == IF segs = << >> THEN "" ELSE Head(segs).text \o Render(Tail(segs))

Clock(n) == [month |-> 1, day |-> 2, hour |-> 3, minute |-> 4, second |-> n]

OptionalTexts == {NoAttr, Attr(""), Attr("p")}
FormatInputs ==
    [severity : Severities, channel : Channels, threadName : {"main"},
     timestamp : {Clock(5)}, prefix : OptionalTexts, suffix : OptionalTexts,
     message : {"boom"}]

FormatRecord ==
    /\ fmtOut = << >>
    /\ fmtCount < MaxFormats
    /\ fmtOut' = formatter(fmtRec)
    /\ fmtCount' = fmtCount + 1
    /\ UNCHANGED <<fmtRec, nameVars, filterVars, coreVars>>

NextRecord(r) ==
    /\ fmtOut # << >>
    /\ fmtCount < MaxFormats
    /\ fmtRec' = r
    /\ fmtOut' = << >>
    /\ UNCHANGED <<fmtCount, nameVars, filterVars, coreVars>>

\* -------------------------------------------------------------- logging core
\* What a failing formatter or stream can throw: an exception derived from
\* std::exception, or one that is not.
ExceptionTypes == {"std", "other"}

\* The configurations and records the pipeline is driven with.
OptionsAll == [verbosity |-> VerbosityInfo, includeChannels |-> {},
               excludeChannels |-> {}, vmTrace |-> FALSE]
OptionsNoNet == [verbosity |-> VerbosityInfo, includeChannels |-> {},
                 excludeChannels |-> {"net"}, vmTrace |-> TRUE]
SetupOptions == {OptionsAll, OptionsNoNet}
\* <<severity, channel, whether formatting or writing the record raises>>
EmitKinds == {<<VerbosityWarning, "net", FALSE>>, <<VerbosityWarning, "rpc", FALSE>>,
              <<VerbosityWarning, "rpc", TRUE>>}

\* sink->locked_backend()->auto_flush(true)
AutoFlushOff == FALSE
AutoFlush == TRUE

\* written is what the sink has put on std::cout, in order, and flushed how
\* much of that has been flushed; the order between the lines of different
\* sinks is not recorded.
NewSink(o) == [options |-> o, auto_flush |-> AutoFlush, queue |-> << >>,
               written |-> << >>, flushed |-> 0]

AddSinkReplacing(ss, o) == << NewSink(o) >>
AddSink(ss, o) == Append(ss, NewSink(o))

setupLogging(o) ==
    /\ ~halted /\ ~exited
    /\ Len(setupLog) + Len(records) < MaxCalls
    /\ sinks' = AddSink(sinks, o)
    /\ handlerInstalled' = TRUE
    /\ g_vmTraceEnabled' = o.vmTrace
    /\ setupLog' = Append(setupLog, o)
    /\ UNCHANGED <<asyncBuild, records, pc, cur, targets,
                   cerrLog, escaped, halted, exited, nameVars, filterVars, formatVars>>

isVmTraceEnabled == g_vmTraceEnabled

\* The text_ostream_backend writes the formatted line and, with auto_flush,
\* flushes the stream before it returns.
WriteToStream(ss, s, r) ==
    [ss EXCEPT ![s].written = Append(@, r),
               ![s].flushed = IF ss[s].auto_flush THEN Len(ss[s].written) + 1 ELSE @]

\* The emission call opens the record: every sink's filter is evaluated on the
\* calling thread, and the accepting sinks are remembered in the record.  With
\* no accepting sink the call returns at once.
EmitCall(t, sev, ch, raises) ==
    /\ ~halted /\ ~exited
    /\ pc[t] = "idle"
    /\ Len(setupLog) + Len(records) < MaxCalls
    /\ LET accepting == {i \in 1..Len(sinks) : Filter(sinks[i].options, sev, ch)} IN
       /\ records' = Append(records, [thread |-> t, severity |-> sev, channel |-> ch,
                                      raises |-> raises, sinksAtCall |-> Len(sinks),
                                      returned |-> accepting = {}])
       /\ targets' = [targets EXCEPT ![t] = accepting]
       /\ pc' = [pc EXCEPT ![t] = IF accepting = {} THEN "idle" ELSE "push"]
    /\ cur' = [cur EXCEPT ![t] = Len(records) + 1]
    /\ UNCHANGED <<asyncBuild, sinks, setupLog, g_vmTraceEnabled, handlerInstalled,
                   cerrLog, escaped, halted, exited,
                   nameVars, filterVars, formatVars>>

\* make_exception_handler<std::exception>: the handler prints to std::cerr for a
\* std::exception and rethrows anything else.
HandlerCatches(ex) == ex = "std"

\* The accepting sinks are fed in the order they were added to the core.
NextTarget(t) == CHOOSE s \in targets[t] : \A u \in targets[t] : s <= u

\* The call has returned normally once there is no sink left to feed.
Fed(t, r, rest) ==
    /\ targets' = [targets EXCEPT ![t] = rest]
    /\ pc' = [pc EXCEPT ![t] = IF rest = {} THEN "idle" ELSE "push"]
    /\ records' = [records EXCEPT ![r].returned = (rest = {})]

\* The core pushes the record to the next accepting sink.  The asynchronous
\* frontend enqueues it; the synchronous frontend formats and writes it on the
\* calling thread, and a failure there unwinds out of the loop over the sinks to
\* the core's exception handler; ex is the type of what is thrown there.
Deliver(t, ex) ==
    /\ ~halted /\ ~exited
    /\ pc[t] = "push"
    /\ LET r == cur[t]
           s == NextTarget(t) IN
       IF asyncBuild
       THEN /\ sinks' = [sinks EXCEPT ![s].queue = Append(@, r)]
            /\ Fed(t, r, targets[t] \ {s})
            /\ UNCHANGED <<cerrLog, escaped>>
       ELSE IF ~records[r].raises
       THEN /\ sinks' = WriteToStream(sinks, s, r)
            /\ Fed(t, r, targets[t] \ {s})
            /\ UNCHANGED <<cerrLog, escaped>>
       ELSE IF handlerInstalled /\ HandlerCatches(ex)
       THEN /\ cerrLog' = Append(cerrLog, r)
            /\ Fed(t, r, {})
            /\ UNCHANGED <<sinks, escaped>>
       ELSE /\ escaped' = [escaped EXCEPT ![t] = TRUE]
            /\ targets' = [targets EXCEPT ![t] = {}]
            /\ pc' = [pc EXCEPT ![t] = "idle"]
            /\ UNCHANGED <<sinks, cerrLog, records>>
    /\ UNCHANGED <<asyncBuild, setupLog, g_vmTraceEnabled, handlerInstalled,
                   cur, halted, exited, nameVars, filterVars, formatVars>>

\* The queue of the asynchronous frontend (unbounded_fifo_queue by default).
DequeueIndexLifo(q) == Len(q)
DequeueIndex(q) == 1

RemoveAt(q, i) == SubSeq(q, 1, i - 1) \o SubSeq(q, i + 1, Len(q))

\* The feeding thread of an asynchronous sink takes one record off the queue,
\* formats and writes it.  The sink frontend has no exception handler of its own
\* and the core's handler does not cover this thread, so a failure leaves the
\* thread function and the runtime calls std::terminate.
Worker(s) ==
    /\ ~halted /\ ~exited
    /\ asyncBuild
    /\ s \in 1..Len(sinks)
    /\ sinks[s].queue # << >>
    /\ LET i == DequeueIndex(sinks[s].queue)
           r == sinks[s].queue[i]
           rest == [sinks EXCEPT ![s].queue = RemoveAt(@, i)] IN
       IF ~records[r].raises
       THEN /\ sinks' = WriteToStream(rest, s, r)
            /\ UNCHANGED halted
       ELSE /\ sinks' = rest
            /\ halted' = TRUE
    /\ UNCHANGED <<asyncBuild, setupLog, g_vmTraceEnabled, handlerInstalled, records,
                   pc, cur, targets, cerrLog, escaped, exited,
                   nameVars, filterVars, formatVars>>

\* The process exits once every emission call has returned.  Log.cpp registers
\* no teardown: nothing calls flush() on a sink, and destroying an asynchronous
\* sink only stops its feeding thread, so what is still queued stays unwritten.
Exit ==
    /\ ~halted /\ ~exited
    /\ \A t \in Threads : pc[t] = "idle"
    /\ exited' = TRUE
    /\ UNCHANGED <<asyncBuild, sinks, setupLog, g_vmTraceEnabled, handlerInstalled,
                   records, pc, cur, targets, cerrLog, escaped,
                   halted, nameVars, filterVars, formatVars>>

\* ------------------------------------------------------------ specifications
NamesIdle ==
    /\ platform = "other"
    /\ tlsName = g_logThreadNameInit
    /\ osName = [t \in Threads |-> "aleth"]
    /\ osInitial = osName
    /\ lastSet = [t \in Threads |-> << >>]
    /\ got = [t \in Threads |-> << >>]
    /\ nameOps = 0

FilterIdle ==
    /\ fOptions = OptionsAll
    /\ fChannel = "net"
    /\ fSev1 = VerbosityError
    /\ fSev2 = VerbosityError
    /\ fRes1 = FALSE
    /\ fRes2 = FALSE
    /\ fApplied = FALSE

FormatIdle ==
    /\ fmtRec = CHOOSE r \in FormatInputs : TRUE
    /\ fmtOut = << >>
    /\ fmtCount = 0

CoreStart ==
    /\ sinks = << >>
    /\ setupLog = << >>
    /\ g_vmTraceEnabled = FALSE
    /\ handlerInstalled = FALSE
    /\ records = << >>
    /\ pc = [t \in Threads |-> "idle"]
    /\ cur = [t \in Threads |-> 0]
    /\ targets = [t \in Threads |-> {}]
    /\ cerrLog = << >>
    /\ escaped = [t \in Threads |-> FALSE]
    /\ halted = FALSE
    /\ exited = FALSE

\* The logging core: both builds of log_sink.
Init ==
    /\ asyncBuild \in BOOLEAN
    /\ CoreStart /\ NamesIdle /\ FilterIdle /\ FormatIdle

Next ==
    \/ \E o \in SetupOptions : setupLogging(o)
    \/ \E t \in Threads, k \in EmitKinds : EmitCall(t, k[1], k[2], k[3])
    \/ \E t \in Threads, ex \in ExceptionTypes : Deliver(t, ex)
    \/ \E s \in 1..MaxCalls : Worker(s)
    \/ Exit

Spec == Init /\ [][Next]_vars

\* The thread-name registry on each platform branch.
InitNames ==
    /\ platform \in Platforms
    /\ tlsName = g_logThreadNameInit
    /\ osName \in [Threads -> OsDefaultNames]
    /\ osInitial = osName
    /\ lastSet = [t \in Threads |-> << >>]
    /\ got = [t \in Threads |-> << >>]
    /\ nameOps = 0
    /\ asyncBuild = FALSE
    /\ CoreStart /\ FilterIdle /\ FormatIdle

NextNames ==
    \/ \E t \in Threads, n \in Names : setThreadName(t, n)
    \/ \E t \in Threads : GetThreadNameCall(t)

SpecNames == InitNames /\ [][NextNames]_vars

\* The sink filter over every configuration.
InitFilter ==
    /\ fOptions \in Options
    /\ fChannel = "net"
    /\ fSev1 = VerbosityError
    /\ fSev2 = VerbosityError
    /\ fRes1 = FALSE
    /\ fRes2 = FALSE
    /\ fApplied = FALSE
    /\ asyncBuild = FALSE
    /\ CoreStart /\ NamesIdle /\ FormatIdle

NextFilter == \E ch \in Channels, s1, s2 \in Severities : ApplyFilter(ch, s1, s2)

SpecFilter == InitFilter /\ [][NextFilter]_vars

\* The formatter over every record shape.
InitFormat ==
    /\ fmtRec \in FormatInputs
    /\ fmtOut = << >>
    /\ fmtCount = 0
    /\ asyncBuild = FALSE
    /\ CoreStart /\ NamesIdle /\ FilterIdle

NextFormat ==
    \/ FormatRecord
    \/ \E r \in FormatInputs : NextRecord(r)

SpecFormat == InitFormat /\ [][NextFormat]_vars

\* ------------------------------------------------------------------- claims
ClaimedAccept(o, sev, ch) ==
    /\ sev <= o.verbosity
    /\ (o.includeChannels = {} \/ ch \in o.includeChannels)
    /\ ch \notin o.excludeChannels

\* C1: the sink filter accepts a record exactly when its severity is at most
\* the verbosity, its channel is included (or no channel is listed for
\* inclusion) and its channel is not excluded.
C1_FilterDecision ==
    fApplied => /\ fRes1 <=> ClaimedAccept(fOptions, fSev1, fChannel)
                /\ fRes2 <=> ClaimedAccept(fOptions, fSev2, fChannel)

\* verbosity=Info, exclude={net}: (Warning, rpc) accepted, (Trace, rpc) rejected.
C1_Witness ==
    /\ fApplied
    /\ fOptions.verbosity = VerbosityInfo
    /\ fOptions.includeChannels = {}
    /\ fOptions.excludeChannels = {"net"}
    /\ fChannel = "rpc"
    /\ fSev1 = VerbosityWarning /\ fRes1
    /\ fSev2 = VerbosityTrace /\ ~fRes2

\* C2: a record whose channel is both included and excluded is rejected at
\* every severity and verbosity.
C2_ExcludeWins ==
    (fApplied /\ fChannel \in fOptions.includeChannels \cap fOptions.excludeChannels)
        => (~fRes1 /\ ~fRes2)

C2_Witness ==
    /\ fApplied
    /\ fChannel \in fOptions.includeChannels \cap fOptions.excludeChannels
    /\ fSev2 <= fOptions.verbosity
    /\ ~fRes1 /\ ~fRes2

\* C3: for one configuration and channel, if the less urgent of two severities
\* is accepted then so is the more urgent one.
C3_Monotone == (fApplied /\ fSev1 < fSev2 /\ fRes2) => fRes1

C3_Witness == fApplied /\ fSev1 < fSev2 /\ fRes2 /\ fRes1

SameThread(r1, r2) == records[r1].thread = records[r2].thread

SinkAccepts(s, r) ==
    /\ s <= records[r].sinksAtCall
    /\ ClaimedAccept(setupLog[s], records[r].severity, records[r].channel)

\* C5: with the asynchronous sink, the records of one thread are written by a
\* sink's worker in the order the thread submitted them: none twice, none out
\* of order, none overtaken by a later one.
C5_AsyncFifo ==
    asyncBuild =>
        \A s \in 1..Len(sinks) :
            LET w == sinks[s].written IN
            \A j \in 1..Len(w) :
                /\ \A i \in 1..(j - 1) : SameThread(w[i], w[j]) => w[i] < w[j]
                /\ \A r \in 1..(w[j] - 1) :
                    (SameThread(r, w[j]) /\ SinkAccepts(s, r))
                        => \E i \in 1..(j - 1) : w[i] = r

C5_Witness ==
    /\ asyncBuild
    /\ \E s \in 1..Len(sinks) :
        \E i, j \in 1..Len(sinks[s].written) :
            /\ i < j
            /\ SameThread(sinks[s].written[i], sinks[s].written[j])

\* C6: a failure raised while formatting or writing a record is contained: it
\* neither stops the pipeline nor reaches the emitting caller.
C6_FailureContained == ~halted /\ \A t \in Threads : ~escaped[t]

WrittenAndFlushed(s, r) ==
    \E i \in 1..Len(sinks[s].written) : i <= sinks[s].flushed /\ sinks[s].written[i] = r

C8_DrainedAtExit == exited => \A s \in 1..Len(sinks) : sinks[s].queue = << >>

ClaimedLabel(sev) ==
    IF sev = VerbosityError THEN "ERROR"
    ELSE IF sev = VerbosityWarning THEN "WARN"
    ELSE IF sev = VerbosityInfo THEN "INFO"
    ELSE IF sev = VerbosityDebug THEN "DEBUG"
    ELSE IF sev = VerbosityTrace THEN "TRACE"
    ELSE ""

FieldsOf(segs) == [i \in 1..Len(segs) |-> segs[i].field]

\* C9: the formatter emits severity label, timestamp, thread name, channel,
\* [prefix], message, [suffix] in that order; the prefix and suffix segments
\* appear exactly when the attribute is present, empty or not; the label comes
\* from the fixed table and is empty for a severity outside it.
C9_FieldOrder ==
    fmtOut # << >> =>
        /\ FieldsOf(fmtOut) =
              << "severity", "timestamp", "threadName", "channel" >>
              \o (IF fmtRec.prefix # NoAttr THEN << "prefix" >> ELSE << >>)
              \o << "message" >>
              \o (IF fmtRec.suffix # NoAttr THEN << "suffix" >> ELSE << >>)
        /\ verbosityToString(fmtRec.severity) = ClaimedLabel(fmtRec.severity)
        /\ fmtOut[1].text = PadRight(ClaimedLabel(fmtRec.severity), 5) \o " "
        /\ \A i \in 1..Len(fmtOut) :
              fmtOut[i].field = "message" => fmtOut[i].text = fmtRec.message

\* An empty but present prefix, no suffix, and a severity outside the table.
C9_Witness ==
    /\ fmtOut # << >>
    /\ fmtRec.prefix = Attr("")
    /\ fmtRec.suffix = NoAttr
    /\ fmtRec.severity > VerbosityTrace
    /\ Len(fmtOut) = 6

RECURSIVE CountIn(_, _)
CountIn(q, r) ==
    IF q = << >> THEN 0
    ELSE (IF Head(q) = r THEN 1 ELSE 0) + CountIn(Tail(q), r)

RECURSIVE QueuedCopies(_, _)
QueuedCopies(s, r) ==
    IF s = 0 THEN 0 ELSE CountIn(sinks[s].queue, r) + QueuedCopies(s - 1, r)

RECURSIVE WrittenUpTo(_, _)
WrittenUpTo(s, r) ==
    IF s = 0 THEN 0 ELSE CountIn(sinks[s].written, r) + WrittenUpTo(s - 1, r)

WrittenCopies(r) == WrittenUpTo(Len(sinks), r)

====
